---- MODULE Spec2Model ----
(***************************************************************************)
(* Result submission and ranking pipeline of the exam system               *)
(* (backend/models.py, backend/routes.py) over its SQLite store.           *)
(*                                                                         *)
(* The store is one SQLite database in rollback-journal mode.  Every       *)
(* function opens its own connection (get_conn, timeout = 30 s).  A write  *)
(* transaction holds the database's RESERVED lock from its first write     *)
(* statement (or from BEGIN IMMEDIATE) to its commit or rollback; its      *)
(* writes become visible to other connections at commit.  A connection     *)
(* that finds the lock taken waits up to the timeout and then raises       *)
(* "database is locked".  Request handlers run on worker threads (Procs).  *)
(*                                                                         *)
(* Numbers with two decimals (score, tazr) are kept in hundredths.         *)
(***************************************************************************)
EXTENDS Integers, Sequences, FiniteSets, TLC

\* ---------------------------------------------------------------- bounds
MaxExams == 1
MaxQuestions == 1
MaxResults == 2
MaxClock == 0
MaxRankRows == 3
MaxScoreQuestions == 10
MaxStrLen == 3
MaxPartLen == 2

Procs == {"p1", "p2"}
NoProc == "none"

ExamIds == 1..MaxExams
Clock == 0..MaxClock

\* ------------------------------------------------------------ characters
\* "fa1" is the Persian digit glyph for 1 (U+06F1), "ar1" the Arabic-Indic
\* one (U+0661), "dv1" the Devanagari one (U+0967); "alef" is a Persian
\* letter, "fa," the Arabic comma (U+060C), "zwnj" the zero-width
\* non-joiner (U+200C), "tab" and "nl" the tab and newline characters.
AsciiDigits == {"0", "1"}
\* \d of a str pattern: every Unicode decimal digit
UnicodeDigits == AsciiDigits \cup {"fa0", "fa1", "ar0", "ar1", "dv1"}
\* \s of a str pattern, and the characters str.strip() removes
Whitespace == {" ", "tab", "nl"}
\* [\u0600-\u06FF]
ArabicBlock == {"alef", "fa,", "fa0", "fa1", "ar0", "ar1"}
\* \w of a str pattern: letters, digits and the underscore
WordChars == {"a", "alef", "_"} \cup UnicodeDigits
\* the characters of the strings below
Chars == WordChars \cup ArabicBlock \cup Whitespace \cup {"-", ".", "zwnj"}

\* _PERSIAN_TO_ASCII_DIGITS
TranslateChar(c) ==
    CASE c = "fa0" -> "0"
      [] c = "fa1" -> "1"
      [] c = "ar0" -> "0"
      [] c = "ar1" -> "1"
      [] OTHER -> c

Translate(s) == [i \in 1..Len(s) |-> TranslateChar(s[i])]

\* re.sub(r"\D", "", s)
RECURSIVE StripNonDigits(_)
StripNonDigits(s) ==
    IF s = <<>> THEN <<>>
    ELSE IF Head(s) \in UnicodeDigits
         THEN <<Head(s)>> \o StripNonDigits(Tail(s))
         ELSE StripNonDigits(Tail(s))

\* normalize_phone; None is passed as the empty string by every caller
\* (phone_raw or "").
normalize_phone(phone_raw) == StripNonDigits(Translate(phone_raw))

\* str.strip()
RECURSIVE LStrip(_)
LStrip(s) ==
    IF s # <<>> /\ Head(s) \in Whitespace THEN LStrip(Tail(s)) ELSE s

RECURSIVE RStrip(_)
RStrip(s) ==
    IF s # <<>> /\ s[Len(s)] \in Whitespace
    THEN RStrip(SubSeq(s, 1, Len(s) - 1))
    ELSE s

Strip(s) == RStrip(LStrip(s))

\* re.sub(r"\s+", " ", t)
RECURSIVE CollapseWs(_)
CollapseWs(s) ==
    IF s = <<>> THEN <<>>
    ELSE IF Head(s) \in Whitespace
         THEN <<" ">> \o CollapseWs(LStrip(s))
         ELSE <<Head(s)>> \o CollapseWs(Tail(s))

normalize_name(text) ==
    IF text = <<>> THEN <<>> ELSE Strip(CollapseWs(Translate(text)))

\* re.fullmatch(r"^[\u0600-\u06FF\s\u200c]+$", s), False for an empty s
is_persian_name_strict(s) ==
    /\ s # <<>>
    /\ \A i \in 1..Len(s) : s[i] \in ArabicBlock \cup Whitespace \cup {"zwnj"}

\* str.strip(chars)
RECURSIVE LStripSet(_, _)
LStripSet(s, S) ==
    IF s # <<>> /\ Head(s) \in S THEN LStripSet(Tail(s), S) ELSE s

RECURSIVE RStripSet(_, _)
RStripSet(s, S) ==
    IF s # <<>> /\ s[Len(s)] \in S
    THEN RStripSet(SubSeq(s, 1, Len(s) - 1), S)
    ELSE s

StripSet(s, S) == RStripSet(LStripSet(s, S), S)

\* re.sub(r"[S]+", r, s): every maximal run of characters of S becomes r
RECURSIVE SubRuns(_, _, _)
SubRuns(s, S, r) ==
    IF s = <<>> THEN <<>>
    ELSE IF Head(s) \in S
         THEN <<r>> \o SubRuns(LStripSet(s, S), S, r)
         ELSE <<Head(s)>> \o SubRuns(Tail(s), S, r)

\* re.search(r"\d+", s): the span of the first run of digits, <<>> if none
FirstDigits(s) ==
    LET at == {i \in 1..Len(s) : s[i] \in UnicodeDigits}
    IN  IF at = {} THEN <<>>
        ELSE LET start == CHOOSE i \in at : \A j \in at : i <= j
                 stop == CHOOSE j \in start..Len(s) :
                            /\ \A k \in start..j : k \in at
                            /\ (j + 1) \notin at
             IN  <<start, stop>>

\* normalize_combined_input: the pair (combined, phone)
normalize_combined_input(input_str) ==
    IF input_str = <<>> THEN <<<<>>, <<>>>>
    ELSE LET s == Translate(Strip(input_str))
             s_clean == SubRuns(s, Chars \ (WordChars \cup ArabicBlock), "_")
             m == FirstDigits(s_clean)
         IN  IF m # <<>>
             THEN LET phone == SubSeq(s_clean, m[1], m[2])
                      before == StripSet(SubSeq(s_clean, 1, m[1] - 1), {"_"})
                      name_part == Strip(SubRuns(before, {"_"}, " "))
                      joined == IF name_part # <<>>
                                THEN name_part \o <<"_">> \o phone
                                ELSE phone
                  IN  <<StripSet(SubRuns(joined, {"_"}, "_"), {"_"}), phone>>
             ELSE <<Strip(SubRuns(s_clean, {"_"}, " ")), <<>>>>

\* ---------------------------------------------------------------- inputs
PROVINCES == {<<"P1">>, <<"P2">>}
RawProvinces == PROVINCES \cup {<<" ", "P1">>}
RawNames == {<<"a">>, <<"a", " ">>}
RawPhones == {<<>>, <<"1">>, <<"fa1">>}
Letters == {"", "A"}
QKeys == {ToString(i) : i \in 1..MaxQuestions}
AnswerMaps == [QKeys -> Letters]

VARIABLES
    exams,      \* ids of the rows of table exams
    nextExam,   \* AUTOINCREMENT counter of exams
    questions,  \* table questions: id -> [exam_id, correct]
    nextQid,    \* AUTOINCREMENT counter of questions
    results,    \* table results (committed rows): id -> row
    nextRid,    \* AUTOINCREMENT counter of results
    lock,       \* holder of the database's RESERVED lock, or NoProc
    pc,         \* per worker: position in submit_exam / save_result
    req,        \* per worker: normalized arguments of the call in progress
    pending,    \* per worker: row inserted and not yet committed (<<>> if none)
    rid,        \* per worker: cur.lastrowid of its insert (0 before)
    snap,       \* per worker: rows fetched by recalc_ranks_for_exam
    out,        \* per worker: outcome of its last finished call
    helper,     \* a call of a helper (its argument and result), or an
                \* input that a specification keeps for its calls
    RATE_LIMIT_STORE,  \* routes._RATE_LIMIT_STORE: store key -> timestamps
    wall,       \* the wall clock that time.time() reads, in seconds
    frame,      \* per worker: the locals of its _rate_limited call
    accepted,   \* the requests _rate_limited has let through, in order
    requests    \* number of _rate_limited calls made

vars == <<exams, nextExam, questions, nextQid, results, nextRid, lock,
          pc, req, pending, rid, snap, out, helper,
          RATE_LIMIT_STORE, wall, frame, accepted, requests>>

catalog == <<exams, nextExam, questions, nextQid>>

limiter == <<RATE_LIMIT_STORE, wall, frame, accepted, requests>>

\* tazr: Optional[float] = None
NoTazr == -1

NoReq == [exam_id |-> 0, student_name |-> <<>>, phone |-> <<>>,
          province |-> <<>>, answers |-> <<>>, tazr |-> NoTazr]
NoOut == [kind |-> "none", rid |-> 0]
NoCall == [fn |-> "none"]
NoFrame == [store_key |-> <<>>, now |-> 0, timestamps |-> <<>>]

\* the process starts: _RATE_LIMIT_STORE: Dict[str, list] = {}
LimiterInit ==
    /\ RATE_LIMIT_STORE = <<>>
    /\ wall = 0
    /\ frame = [p \in Procs |-> NoFrame]
    /\ accepted = <<>>
    /\ requests = 0

Init ==
    /\ exams = {}
    /\ nextExam = 0
    /\ questions = <<>>
    /\ nextQid = 0
    /\ results = <<>>
    /\ nextRid = 0
    /\ lock = NoProc
    /\ pc = [p \in Procs |-> "idle"]
    /\ req = [p \in Procs |-> NoReq]
    /\ pending = [p \in Procs |-> <<>>]
    /\ rid = [p \in Procs |-> 0]
    /\ snap = [p \in Procs |-> <<>>]
    /\ out = [p \in Procs |-> NoOut]
    /\ helper = NoCall
    /\ LimiterInit

\* ------------------------------------------------------------- catalog
\* add_exam: INSERT INTO exams, commit.  A writer needs the RESERVED lock.
add_exam ==
    /\ lock = NoProc
    /\ nextExam < MaxExams
    /\ nextExam' = nextExam + 1
    /\ exams' = exams \cup {nextExam + 1}
    /\ UNCHANGED <<helper, limiter, questions, nextQid, results, nextRid, lock,
                   pc, req, pending, rid, snap, out>>

\* (correct or "").strip().upper() of add_question and save_result
CleanLetter(v) ==
    CASE v = " " -> ""
      [] v = "a" -> "A"
      [] v = "b" -> "B"
      [] OTHER -> v

\* add_question: the exam id is not checked against table exams.
add_question(e, correct) ==
    /\ lock = NoProc
    /\ nextQid < MaxQuestions
    /\ nextQid' = nextQid + 1
    /\ questions' = questions @@
           ((nextQid + 1) :> [exam_id |-> e, correct |-> CleanLetter(correct)])
    /\ UNCHANGED <<helper, limiter, exams, nextExam, results, nextRid, lock,
                   pc, req, pending, rid, snap, out>>

Restrict(f, S) == [x \in S |-> f[x]]

\* a delete_question that also drops the Results of the question's exam
delete_question_and_results(q) ==
    /\ lock = NoProc
    /\ q \in DOMAIN questions
    /\ questions' = Restrict(questions, DOMAIN questions \ {q})
    /\ results' = Restrict(results,
                     {r \in DOMAIN results :
                        results[r].exam_id # questions[q].exam_id})
    /\ UNCHANGED <<helper, limiter, exams, nextExam, nextQid, nextRid, lock,
                   pc, req, pending, rid, snap, out>>

\* delete_question
delete_question(q) ==
    /\ lock = NoProc
    /\ q \in DOMAIN questions
    /\ questions' = Restrict(questions, DOMAIN questions \ {q})
    /\ UNCHANGED <<helper, limiter, exams, nextExam, nextQid, results, nextRid, lock,
                   pc, req, pending, rid, snap, out>>

\* a delete_exam that leaves the rows of the exam's Questions and Results
\* to ON DELETE CASCADE, which is not enforced on these connections
delete_exam_row_only(e) ==
    /\ lock = NoProc
    /\ exams' = exams \ {e}
    /\ UNCHANGED <<helper, limiter, nextExam, questions, nextQid, results, nextRid,
                   lock, pc, req, pending, rid, snap, out>>

\* delete_exam: three DELETEs in one transaction, one commit.
delete_exam(e) ==
    /\ lock = NoProc
    /\ results' = Restrict(results,
                     {r \in DOMAIN results : results[r].exam_id # e})
    /\ questions' = Restrict(questions,
                     {q \in DOMAIN questions : questions[q].exam_id # e})
    /\ exams' = exams \ {e}
    /\ UNCHANGED <<helper, limiter, nextExam, nextQid, nextRid, lock,
                   pc, req, pending, rid, snap, out>>

\* SELECT * FROM questions without the WHERE clause
get_all_questions(e) == DOMAIN questions

\* get_exam_questions: ids of the exam's questions (ORDER BY id)
get_exam_questions(e) == {q \in DOMAIN questions : questions[q].exam_id = e}

\* ------------------------------------------------------------- scoring
\* round(100.0 * num / den, 2) in hundredths, ties to even as Python rounds
RoundHalfEven(n, den) ==
    LET q == n \div den
        r == n % den
    IN  IF 2 * r < den THEN q
        ELSE IF 2 * r > den THEN q + 1
        ELSE IF q % 2 = 0 THEN q ELSE q + 1

Percent(num, den) == RoundHalfEven(10000 * num, den)

\* Values of a parsed answers dict that are not strings, written as their
\* JSON text: a number, zero, null.
NonStrings == {"json:5", "json:0", "json:null"}

\* the truth value Python's `or` tests
Truthy(v) == v \notin {"", "json:0", "json:null"}

\* answers.get(qid) or "", stripped and upper-cased
YourAnswer(answers, q) ==
    IF ToString(q) \in DOMAIN answers /\ Truthy(answers[ToString(q)])
    THEN CleanLetter(answers[ToString(q)])
    ELSE ""

\* (answers.get(qid) or "").strip() raises AttributeError when the value
\* of a question's key is truthy and not a string
ScoringRaises(qs, answers) ==
    \E q \in qs :
        /\ ToString(q) \in DOMAIN answers
        /\ Truthy(answers[ToString(q)])
        /\ answers[ToString(q)] \in NonStrings

IsCorrect(answers, q) ==
    /\ YourAnswer(answers, q) # ""
    /\ YourAnswer(answers, q) = CleanLetter(questions[q].correct)

Max(a, b) == IF a >= b THEN a ELSE b

TazrMin == 1000
TazrMax == 13500
PenaltyDivisor == 3

\* every answer that is not correct counts as wrong, blank ones too
ScorePercentBlankWrong(qs, answers) ==
    IF qs = {} THEN 0
    ELSE LET total == Cardinality(qs)
             correct_count == Cardinality({q \in qs : IsCorrect(answers, q)})
             wrong_count == total - correct_count
             penalty == wrong_count \div PenaltyDivisor
             adjusted_correct == Max(correct_count - penalty, 0)
         IN  Percent(adjusted_correct, total)

\* score_percent of save_result for the question ids qs
ScorePercent(qs, answers) ==
    IF qs = {} THEN 0
    ELSE LET total == Cardinality(qs)
             correct_count == Cardinality({q \in qs : IsCorrect(answers, q)})
             wrong_count == Cardinality({q \in qs :
                               /\ ~IsCorrect(answers, q)
                               /\ YourAnswer(answers, q) # ""})
             penalty == wrong_count \div PenaltyDivisor
             adjusted_correct == Max(correct_count - penalty, 0)
         IN  Percent(adjusted_correct, total)

\* tazr_value = round(1000 + (score_percent / 100.0) * (13500 - 1000), 2)
TazrValue(score) ==
    RoundHalfEven(TazrMin * 10000 + score * (TazrMax - TazrMin), 100)

\* details_json: every question carries the default topic
Details(qs, answers) ==
    [per_topic |->
        IF qs = {} THEN <<>>
        ELSE [t \in {"unspecified"} |->
                Percent(Cardinality({q \in qs : IsCorrect(answers, q)}),
                        Cardinality(qs))],
     per_question |->
        [q \in qs |-> [your_answer |-> YourAnswer(answers, q),
                       correct |-> CleanLetter(questions[q].correct),
                       is_correct |-> IsCorrect(answers, q)]]]

\* ------------------------------------------------------------- ranking
\* SELECT id, tazr, province FROM results WHERE exam_id = ?
\* ORDER BY tazr DESC, created_at ASC: every order of the exam's rows the
\* ORDER BY allows (rows equal in both keys come in any order).
SelectRanked(res, e) ==
    LET ids == {r \in DOMAIN res : res[r].exam_id = e}
        n == Cardinality(ids)
        Before(a, b) ==
            \/ res[a].tazr > res[b].tazr
            \/ res[a].tazr = res[b].tazr /\ res[a].created_at <= res[b].created_at
    IN  {[i \in 1..n |-> [id |-> f[i], tazr |-> res[f[i]].tazr,
                          province |-> res[f[i]].province]] :
            f \in {g \in [1..n -> ids] :
                     /\ \A i, j \in 1..n : i # j => g[i] # g[j]
                     /\ \A i, j \in 1..n : i < j => Before(g[i], g[j])}}

\* dense ranking: a new score takes the next rank, not the position
RECURSIVE RankLoopDense(_, _)
RankLoopDense(rows, i) ==
    IF i = 0 THEN <<0, <<>>>>
    ELSE LET prev == RankLoopDense(rows, i - 1)
         IN  IF <<rows[i].tazr>> # prev[2]
             THEN <<prev[1] + 1, <<rows[i].tazr>>>>
             ELSE prev

\* The loop of competition ranking over rows[1..i]: the pair
\* <<rank, last_score>> after the i-th row (last_score <<>> is None).
RECURSIVE RankLoop(_, _)
RankLoop(rows, i) ==
    IF i = 0 THEN <<0, <<>>>>
    ELSE LET prev == RankLoop(rows, i - 1)
         IN  IF <<rows[i].tazr>> # prev[2]
             THEN <<i, <<rows[i].tazr>>>>
             ELSE prev

\* rank written for the i-th row of rows
RankAt(rows, i) == RankLoop(rows, i)[1]

\* no partition: every row counts for every province
ProvRowsAll(rows, prov) == rows

\* provinces.setdefault(r['province'], []).append(r): the rows of one
\* province, in the order of rows
RECURSIVE ProvRows(_, _)
ProvRows(rows, prov) ==
    IF rows = <<>> THEN <<>>
    ELSE IF Head(rows).province = prov
         THEN <<Head(rows)>> \o ProvRows(Tail(rows), prov)
         ELSE ProvRows(Tail(rows), prov)

\* sorted(prov_rows, key=lambda x: (-x['tazr'], x['id']))
ProvSorted(prov_rows) ==
    LET n == Len(prov_rows)
        Key(a, b) == \/ a.tazr > b.tazr
                     \/ a.tazr = b.tazr /\ a.id < b.id
    IN  CHOOSE s \in [1..n -> {prov_rows[i] : i \in 1..n}] :
            /\ \A i, j \in 1..n : i # j => s[i] # s[j]
            /\ \A i, j \in 1..n : i < j => Key(s[i], s[j])

Position(rows, id) == CHOOSE i \in 1..Len(rows) : rows[i].id = id

\* UPDATE ... SET rank_national = rank_national + ?: the new rank is added
\* to the stored one
WriteRanksAdded(res, rows) ==
    LET fetched == {rows[i].id : i \in 1..Len(rows)}
    IN  [r \in DOMAIN res |->
            IF r \in fetched
            THEN [res[r] EXCEPT
                    !.rank_national = @ + RankAt(rows, Position(rows, r)),
                    !.rank_provincial = @ + 1]
            ELSE res[r]]

\* The UPDATEs of recalc_ranks_for_exam for the fetched rows, applied to the
\* table res; an UPDATE of an id that is gone changes nothing.
WriteRanks(res, rows) ==
    LET fetched == {rows[i].id : i \in 1..Len(rows)}
        Row(id) == rows[Position(rows, id)]
        psorted(id) == ProvSorted(ProvRows(rows, Row(id).province))
    IN  [r \in DOMAIN res |->
            IF r \in fetched
            THEN [res[r] EXCEPT
                    !.rank_national = RankAt(rows, Position(rows, r)),
                    !.rank_provincial =
                        RankAt(psorted(r), Position(psorted(r), r))]
            ELSE res[r]]

\* ------------------------------------------------- duplicate detection
\* a has_exact_duplicate that looks the phone and the name up as given,
\* without normalize_phone and normalize_name
has_exact_duplicate_raw(res, e, student_name, phone_raw, province) ==
    IF phone_raw # <<>>
    THEN {r \in DOMAIN res : res[r].exam_id = e /\ res[r].phone = phone_raw}
    ELSE {r \in DOMAIN res : /\ res[r].exam_id = e
                             /\ res[r].student_name = student_name
                             /\ res[r].province = Strip(province)}

\* has_exact_duplicate: the rows its SELECT matches (LIMIT 1 returns one)
has_exact_duplicate(res, e, student_name, phone_raw, province) ==
    LET phone == normalize_phone(phone_raw)
        student_name_clean == normalize_name(student_name)
        prov == Strip(province)
    IN  IF phone # <<>>
        THEN {r \in DOMAIN res : res[r].exam_id = e /\ res[r].phone = phone}
        ELSE {r \in DOMAIN res : /\ res[r].exam_id = e
                                 /\ res[r].student_name = student_name_clean
                                 /\ res[r].province = prov}

\* a duplicate check that wants phone, name and province all to match
SaveResultDuplicatesAllFields(res, e, student_name, phone, province) ==
    {r \in DOMAIN res : /\ res[r].exam_id = e
                        /\ res[r].phone = phone
                        /\ res[r].student_name = student_name
                        /\ res[r].province = province}

\* the duplicate check of save_result inside its transaction, on the
\* normalized arguments
SaveResultDuplicates(res, e, student_name, phone, province) ==
    IF phone # <<>>
    THEN {r \in DOMAIN res : res[r].exam_id = e /\ res[r].phone = phone}
    ELSE {r \in DOMAIN res : /\ res[r].exam_id = e
                             /\ res[r].student_name = student_name
                             /\ res[r].province = province}

\* ------------------------------------------------------- calls, returns
\* the normalization at the top of save_result
Normalized(e, student_name, phone_raw, province, answers) ==
    [exam_id |-> e,
     student_name |-> normalize_name(student_name),
     phone |-> normalize_phone(phone_raw),
     province |-> Strip(province),
     answers |-> answers,
     tazr |-> NoTazr]

\* The call of p ends.  save_result returns an id, returns None (r = 0) or
\* raises; submit_exam turns an exception into a redirect to the message
\* page and any returned value into a redirect to /result/{rid}.
Outcome(kind, r) ==
    [kind |-> IF kind = "raised" THEN "message" ELSE "result", rid |-> r]

Finish(p, kind, r) ==
    /\ pc' = [pc EXCEPT ![p] = "idle"]
    /\ req' = [req EXCEPT ![p] = NoReq]
    /\ rid' = [rid EXCEPT ![p] = 0]
    /\ out' = [out EXCEPT ![p] = Outcome(kind, r)]

\* submit_exam up to has_exact_duplicate: the province is validated, the
\* phone normalized
SubmitExam(p, e, student_name, phone, province, answers) ==
    /\ pc[p] = "idle"
    /\ nextRid < MaxResults
    /\ IF province \notin PROVINCES
       THEN /\ out' = [out EXCEPT ![p] = [kind |-> "message", rid |-> 0]]
            /\ req' = [req EXCEPT ![p] = NoReq]
            /\ pc' = pc
       ELSE /\ out' = [out EXCEPT ![p] = NoOut]
            /\ req' = [req EXCEPT ![p] =
                         Normalized(e, student_name, normalize_phone(phone),
                                    province, answers)]
            /\ pc' = [pc EXCEPT ![p] = "precheck"]
    /\ UNCHANGED <<helper, limiter, catalog, results, nextRid, lock, pending, rid, snap>>

\* existing = models.has_exact_duplicate(...): one SELECT on its own
\* connection; a row found redirects to it, else save_result is called
PreCheck(p) ==
    /\ pc[p] = "precheck"
    /\ LET existing == has_exact_duplicate(results, req[p].exam_id,
                            req[p].student_name, req[p].phone, req[p].province)
       IN  IF existing # {}
           THEN \E x \in existing :
                  /\ out' = [out EXCEPT ![p] = [kind |-> "existing", rid |-> x]]
                  /\ pc' = [pc EXCEPT ![p] = "idle"]
                  /\ req' = [req EXCEPT ![p] = NoReq]
           ELSE /\ pc' = [pc EXCEPT ![p] = "begin"]
                /\ UNCHANGED <<req, out>>
    /\ UNCHANGED <<helper, limiter, catalog, results, nextRid, lock, pending, rid, snap>>

\* ---------------------------------------------------------- save_result
\* a deferred BEGIN: no lock is taken before the first write
BeginDeferred(p) ==
    /\ pc[p] = "begin"
    /\ pc' = [pc EXCEPT ![p] = "check"]
    /\ UNCHANGED <<helper, limiter, catalog, results, nextRid, lock, req, pending, rid, snap, out>>

\* cur.execute("BEGIN IMMEDIATE"): takes the RESERVED lock
BeginImmediate(p) ==
    /\ pc[p] = "begin"
    /\ lock = NoProc
    /\ lock' = p
    /\ pc' = [pc EXCEPT ![p] = "check"]
    /\ UNCHANGED <<helper, limiter, catalog, results, nextRid, req, pending, rid, snap, out>>

\* BEGIN IMMEDIATE waited 30 s for the lock: OperationalError; the handler
\* rolls back (nothing was written), closes and re-raises
BeginTimeout(p) ==
    /\ pc[p] = "begin"
    /\ lock \notin {NoProc, p}
    /\ Finish(p, "raised", 0)
    /\ UNCHANGED <<helper, limiter, catalog, results, nextRid, lock, pending, snap>>

\* a row whose score is marked down when the exam already has Results
NewRowAfterOthers(r, created_at) ==
    LET qs == get_exam_questions(r.exam_id)
        first == \A x \in DOMAIN results : results[x].exam_id # r.exam_id
        score == IF first THEN ScorePercent(qs, r.answers) ELSE 0
    IN  [exam_id |-> r.exam_id,
         student_name |-> r.student_name,
         phone |-> r.phone,
         province |-> r.province,
         score |-> score,
         tazr |-> IF r.tazr = NoTazr THEN TazrValue(score) ELSE r.tazr,
         rank_national |-> 0,
         rank_provincial |-> 0,
         details |-> Details(qs, r.answers),
         created_at |-> created_at]

\* the row save_result inserts
NewRow(r, created_at) ==
    LET qs == get_exam_questions(r.exam_id)
        score == ScorePercent(qs, r.answers)
    IN  [exam_id |-> r.exam_id,
         student_name |-> r.student_name,
         phone |-> r.phone,
         province |-> r.province,
         score |-> score,
         tazr |-> IF r.tazr = NoTazr THEN TazrValue(score) ELSE r.tazr,
         rank_national |-> 0,
         rank_provincial |-> 0,
         details |-> Details(qs, r.answers),
         created_at |-> created_at]

\* a duplicate that is scored again and overwrites the stored row
OverwriteDuplicate(p) ==
    /\ \E x \in SaveResultDuplicates(results, req[p].exam_id,
                    req[p].student_name, req[p].phone, req[p].province) :
          results' = [results EXCEPT
                        ![x].score = NewRow(req[p], 0).score,
                        ![x].tazr = NewRow(req[p], 0).tazr,
                        ![x].details = NewRow(req[p], 0).details]
    /\ lock' = NoProc
    /\ Finish(p, "returned", 0)
    /\ UNCHANGED <<nextRid, pending>>

\* cur.execute("SELECT id FROM results ...") finds a row: conn.rollback(),
\* conn.close(), return None
RejectDuplicate(p) ==
    /\ lock' = NoProc
    /\ Finish(p, "returned", 0)
    /\ UNCHANGED <<results, nextRid, pending>>

\* Inside the transaction: the duplicate check, then either rollback and
\* return None, or scoring and the INSERT (not yet committed).
\* created_at is the wall clock's utcnow(), which is not monotonic.
\* An exception of the scoring loop, or of the INSERT when the storage is
\* full (MaxResults rows were ever stored), reaches the handler, which
\* rolls back, closes and re-raises.
CheckAndInsert(p) ==
    /\ pc[p] = "check"
    /\ IF SaveResultDuplicates(results, req[p].exam_id, req[p].student_name,
                               req[p].phone, req[p].province) # {}
       THEN RejectDuplicate(p)
       ELSE IF \/ ScoringRaises(get_exam_questions(req[p].exam_id),
                                 req[p].answers)
               \/ nextRid >= MaxResults
       THEN /\ lock' = NoProc
            /\ Finish(p, "raised", 0)
            /\ UNCHANGED <<results, nextRid, pending>>
       ELSE /\ \E now \in Clock :
                 pending' = [pending EXCEPT ![p] = <<NewRow(req[p], now)>>]
            /\ nextRid' = nextRid + 1
            /\ rid' = [rid EXCEPT ![p] = nextRid + 1]
            /\ pc' = [pc EXCEPT ![p] = "commit"]
            /\ UNCHANGED <<results, lock, req, out>>
    /\ UNCHANGED <<helper, limiter, catalog, snap>>

\* a save_result that starts the rank recomputation inside its write
\* transaction, before the commit
RecalcBeforeCommit(p) ==
    /\ pc[p] = "commit"
    /\ pc' = [pc EXCEPT ![p] = "rc_read"]
    /\ UNCHANGED <<helper, limiter, catalog, results, nextRid, lock, req, pending,
                   rid, snap, out>>

\* conn.commit(): the row becomes visible, the lock is released, and
\* save_result goes on to recalc_ranks_for_exam
Commit(p) ==
    /\ pc[p] = "commit"
    /\ results' = results @@ (rid[p] :> pending[p][1])
    /\ pending' = [pending EXCEPT ![p] = <<>>]
    /\ lock' = NoProc
    /\ pc' = [pc EXCEPT ![p] = "rc_read"]
    /\ UNCHANGED <<helper, limiter, catalog, nextRid, req, rid, snap, out>>

\* ------------------------------------------------ recalc_ranks_for_exam
\* the SELECT and fetchall(), in autocommit mode (no transaction is open).
\* With no row fetched there is no UPDATE, and the commit does nothing.
RecalcRead(p) ==
    /\ pc[p] = "rc_read"
    /\ \E rows \in SelectRanked(results, req[p].exam_id) :
         IF rows = <<>>
         THEN /\ Finish(p, "returned", rid[p])
              /\ snap' = snap
         ELSE /\ snap' = [snap EXCEPT ![p] = rows]
              /\ pc' = [pc EXCEPT ![p] = "rc_begin"]
              /\ UNCHANGED <<req, rid, out>>
    /\ UNCHANGED <<helper, limiter, catalog, results, nextRid, lock, pending>>

\* the first UPDATE opens the write transaction (implicit BEGIN) and takes
\* the RESERVED lock
RecalcBegin(p) ==
    /\ pc[p] = "rc_begin"
    /\ lock = NoProc
    /\ lock' = p
    /\ pc' = [pc EXCEPT ![p] = "rc_commit"]
    /\ UNCHANGED <<helper, limiter, catalog, results, nextRid, req, pending, rid, snap, out>>

\* the first UPDATE waited 30 s for the lock: OperationalError leaves
\* recalc_ranks_for_exam and reaches save_result's handler, whose rollback
\* acts on the closed connection; the exception is re-raised
RecalcTimeout(p) ==
    /\ pc[p] = "rc_begin"
    /\ lock \notin {NoProc, p}
    /\ Finish(p, "raised", 0)
    /\ snap' = [snap EXCEPT ![p] = <<>>]
    /\ UNCHANGED <<helper, limiter, catalog, results, nextRid, lock, pending>>

\* the UPDATEs and conn.commit() of recalc_ranks_for_exam; save_result
\* returns rid
RecalcCommit(p) ==
    /\ pc[p] = "rc_commit"
    /\ results' = WriteRanks(results, snap[p])
    /\ lock' = NoProc
    /\ snap' = [snap EXCEPT ![p] = <<>>]
    /\ Finish(p, "returned", rid[p])
    /\ UNCHANGED <<helper, limiter, catalog, nextRid, pending>>

\* The student whose Result r is stored with no rank yet (the message page
\* asked to try again, or the submission is still being handled) submits
\* the same form again.
Retry(p, r) ==
    /\ pc[p] = "idle"
    /\ r \in DOMAIN results
    /\ results[r].rank_national = 0
    /\ \E a \in AnswerMaps :
         req' = [req EXCEPT ![p] =
                   Normalized(results[r].exam_id, results[r].student_name,
                              results[r].phone, results[r].province, a)]
    /\ pc' = [pc EXCEPT ![p] = "precheck"]
    /\ out' = [out EXCEPT ![p] = NoOut]
    /\ UNCHANGED <<helper, limiter, catalog, results, nextRid, lock, pending, rid, snap>>

\* ---------------------------------------------------------------- terms
ExamRows(res, e) == {r \in DOMAIN res : res[r].exam_id = e}

\* competition rank: 1 + the number of rows with a strictly greater tazr
CompetitionRank(res, among, r) ==
    1 + Cardinality({x \in among : res[x].tazr > res[r].tazr})

NationalFresh(res, e) ==
    \A r \in ExamRows(res, e) :
        res[r].rank_national = CompetitionRank(res, ExamRows(res, e), r)

ProvincialFresh(res, e) ==
    \A r \in ExamRows(res, e) :
        res[r].rank_provincial =
            CompetitionRank(res, {x \in ExamRows(res, e) :
                                    res[x].province = res[r].province}, r)

RanksFresh(res, e) == NationalFresh(res, e) /\ ProvincialFresh(res, e)

\* the rows a recalc fetched are the exam's rows as they are now
SnapCurrent(p) ==
    {snap[p][i] : i \in 1..Len(snap[p])} =
        {[id |-> r, tazr |-> results[r].tazr, province |-> results[r].province] :
            r \in ExamRows(results, req[p].exam_id)}

\* ---------------------------------------------------------------- system
Worker(p) ==
    \/ PreCheck(p)
    \/ BeginImmediate(p)
    \/ CheckAndInsert(p)
    \/ Commit(p)
    \/ RecalcRead(p)
    \/ RecalcBegin(p)
    \/ RecalcCommit(p)

Submit(p) ==
    \E e \in ExamIds, n \in RawNames, ph \in RawPhones,
       pr \in RawProvinces, a \in AnswerMaps : SubmitExam(p, e, n, ph, pr, a)

Next ==
    \/ add_exam
    \/ \E e \in ExamIds, c \in {"a"} : add_question(e, c)
    \/ \E e \in ExamIds : delete_exam(e)
    \/ \E p \in Procs : Submit(p)
    \/ \E p \in Procs : Worker(p)
    \/ \E p \in Procs : BeginTimeout(p)
    \/ \E p \in Procs : RecalcTimeout(p)

Spec == Init /\ [][Next]_vars

\* Submissions with students who try again.  A worker thread that can take
\* its next step takes it, and a student who can try again does; a wait for
\* the lock may end in a timeout, and nothing makes a new student arrive.
RetryNext ==
    \/ add_exam
    \/ \E p \in Procs : Submit(p)
    \/ \E p \in Procs : Worker(p)
    \/ \E p \in Procs : BeginTimeout(p)
    \/ \E p \in Procs : RecalcTimeout(p)
    \/ \E p \in Procs, r \in 1..MaxResults : Retry(p, r)

FairSpec ==
    /\ Init
    /\ [][RetryNext]_vars
    /\ \A p \in Procs : WF_vars(Worker(p))
    /\ \A p \in Procs : WF_vars(\E r \in 1..MaxResults : Retry(p, r))

\* ------------------------------------------- recalc_ranks_for_exam alone
\* Stores with up to MaxRankRows Results of exam 1, of any tazr that a
\* score of 0, 50 or 100 gives, any province and any created_at, not yet
\* ranked, and possibly one Result of another exam; recalc_ranks_for_exam is
\* then called, again and again, by one caller at a time.
RankTazr == {TazrValue(0), TazrValue(5000), TazrValue(10000)}
RankCreated == {0, 1}
RankCaller == "p1"

RankRow(e, i, t, prov, c) ==
    [exam_id |-> e,
     student_name |-> <<"a">>,
     phone |-> [k \in 1..i |-> "1"],
     province |-> prov,
     score |-> (t - TazrValue(0)) \div ((TazrMax - TazrMin) \div 100),
     tazr |-> t,
     rank_national |-> 0,
     rank_provincial |-> 0,
     details |-> [per_topic |-> <<>>, per_question |-> <<>>],
     created_at |-> c]

RankStores ==
    UNION {
      LET own == [1..n -> RankTazr \X PROVINCES \X RankCreated]
      IN  {[i \in 1..n |-> RankRow(1, i, f[i][1], f[i][2], f[i][3])] : f \in own}
          \cup
          {[i \in 1..(n + 1) |->
              IF i <= n THEN RankRow(1, i, f[i][1], f[i][2], f[i][3])
              ELSE RankRow(2, i, TazrValue(10000), <<"P1">>, 0)] : f \in own}
      : n \in 0..MaxRankRows}

RankInit ==
    /\ exams = {1, 2}
    /\ nextExam = 2
    /\ questions = <<>>
    /\ nextQid = 0
    /\ results \in RankStores
    /\ nextRid = Len(results)
    /\ lock = NoProc
    /\ pc = [p \in Procs |-> "idle"]
    /\ req = [p \in Procs |-> NoReq]
    /\ pending = [p \in Procs |-> <<>>]
    /\ rid = [p \in Procs |-> 0]
    /\ snap = [p \in Procs |-> <<>>]
    /\ out = [p \in Procs |-> NoOut]
    /\ helper = NoCall
    /\ LimiterInit

\* recalc_ranks_for_exam(e) is called
CallRecalc(p, e) ==
    /\ pc[p] = "idle"
    /\ pc' = [pc EXCEPT ![p] = "rc_read"]
    /\ req' = [req EXCEPT ![p] = [NoReq EXCEPT !.exam_id = e]]
    /\ out' = [out EXCEPT ![p] = NoOut]
    /\ UNCHANGED <<helper, limiter, catalog, results, nextRid, lock, pending, rid, snap>>

RankNext ==
    \/ \E e \in 1..2 : CallRecalc(RankCaller, e)
    \/ RecalcRead(RankCaller)
    \/ RecalcBegin(RankCaller)
    \/ RecalcCommit(RankCaller)

RankSpec == RankInit /\ [][RankNext]_vars

\* The teacher's edits of the catalog with one student submitting: exams
\* and questions are added and deleted before, between and after the steps
\* of a submission.
EditCaller == "p1"

EditNext ==
    \/ add_exam
    \/ \E e \in ExamIds, c \in {"a"} : add_question(e, c)
    \/ \E q \in 1..MaxQuestions : delete_question(q)
    \/ \E e \in ExamIds : delete_exam(e)
    \/ Submit(EditCaller)
    \/ Worker(EditCaller)

EditSpec == Init /\ [][EditNext]_vars

\* Two exams, each with one question: one student submits to exam 1, which
\* the teacher may delete, while another submits to exam 2.
CrossExams == {1, 2}
CrossExam(p) == IF p = "p1" THEN 1 ELSE 2
CrossAnswers == [{"1", "2"} -> Letters]

CrossInit ==
    /\ exams = CrossExams
    /\ nextExam = 2
    /\ questions = [q \in CrossExams |-> [exam_id |-> q, correct |-> "A"]]
    /\ nextQid = 2
    /\ results = <<>>
    /\ nextRid = 0
    /\ lock = NoProc
    /\ pc = [p \in Procs |-> "idle"]
    /\ req = [p \in Procs |-> NoReq]
    /\ pending = [p \in Procs |-> <<>>]
    /\ rid = [p \in Procs |-> 0]
    /\ snap = [p \in Procs |-> <<>>]
    /\ out = [p \in Procs |-> NoOut]
    /\ helper = NoCall
    /\ LimiterInit

CrossSubmit(p) ==
    \E ph \in {<<>>, <<"1">>}, a \in CrossAnswers :
        SubmitExam(p, CrossExam(p), <<"a">>, ph, <<"P1">>, a)

CrossNext ==
    \/ delete_exam(1)
    \/ \E p \in Procs : CrossSubmit(p)
    \/ \E p \in Procs : Worker(p)
    \/ \E p \in Procs : BeginTimeout(p)
    \/ \E p \in Procs : RecalcTimeout(p)

CrossSpec == CrossInit /\ [][CrossNext]_vars

\* ------------------------------------------------ normalization helpers
\* One call of a helper of models.py on a string of up to MaxStrLen
\* characters or on None, or on a name, a separator and a phone number of
\* up to MaxPartLen characters each, written one after the other.
Strings(S, n) == UNION {[1..k -> S] : k \in 0..n}

\* the digits of d written in the script sc
InScript(d, sc) ==
    [i \in 1..Len(d) |-> IF sc = "" THEN d[i] ELSE sc \o d[i]]

PlainArgs ==
    {[fn |-> "none", is_none |-> FALSE, arg |-> s, parts |-> <<>>] :
        s \in Strings(Chars, MaxStrLen)}
    \cup {[fn |-> "none", is_none |-> TRUE, arg |-> <<>>, parts |-> <<>>]}

CombinedArgs ==
    {[fn |-> "none", is_none |-> FALSE,
      arg |-> x[1] \o x[2] \o InScript(x[3], x[4]),
      parts |-> <<x[1], x[2], x[3]>>] :
        x \in (Strings({"a", "alef"}, MaxPartLen) \ {<<>>})
               \X (Strings({"-", ".", "_", "fa,"}, MaxPartLen) \ {<<>>})
               \X (Strings(AsciiDigits, MaxPartLen) \ {<<>>})
               \X {"", "fa", "ar"}}

HelperInit ==
    /\ exams = {}
    /\ nextExam = 0
    /\ questions = <<>>
    /\ nextQid = 0
    /\ results = <<>>
    /\ nextRid = 0
    /\ lock = NoProc
    /\ pc = [p \in Procs |-> "idle"]
    /\ req = [p \in Procs |-> NoReq]
    /\ pending = [p \in Procs |-> <<>>]
    /\ rid = [p \in Procs |-> 0]
    /\ snap = [p \in Procs |-> <<>>]
    /\ out = [p \in Procs |-> NoOut]
    /\ helper \in PlainArgs \cup CombinedArgs
    /\ LimiterInit

\* the helper fn has returned ret
Returned(fn, ret) ==
    /\ helper' = [fn |-> fn, is_none |-> helper.is_none, arg |-> helper.arg,
                  parts |-> helper.parts, ret |-> ret]
    /\ UNCHANGED <<limiter, catalog, results, nextRid, lock, pc, req, pending, rid,
                   snap, out>>

\* if phone_raw is None: return ""
CallNormalizePhone ==
    /\ helper.fn = "none"
    /\ Returned("normalize_phone",
                IF helper.is_none THEN <<>> ELSE normalize_phone(helper.arg))

\* if not s: return False
CallIsPersianNameStrict ==
    /\ helper.fn = "none"
    /\ Returned("is_persian_name_strict",
                IF helper.is_none THEN FALSE
                ELSE is_persian_name_strict(helper.arg))

\* if not input_str: return ("", "")
CallNormalizeCombinedInput ==
    /\ helper.fn = "none"
    /\ Returned("normalize_combined_input",
                IF helper.is_none THEN <<<<>>, <<>>>>
                ELSE normalize_combined_input(helper.arg))

HelperNext ==
    \/ CallNormalizePhone
    \/ CallIsPersianNameStrict
    \/ CallNormalizeCombinedInput

HelperSpec == HelperInit /\ [][HelperNext]_vars

\* --------------------------------------------------- save_result's scoring
\* An exam 1 with up to MaxScoreQuestions questions (correct answer A) and
\* no exam 2; save_result is called on the empty results store, by one
\* caller, with any of the answers arguments below and any tazr override.
ScoreCaller == "p1"

\* the answers dict that gives right answers (as "A" or "a") to the first c
\* questions, wrong ones to the next w, and leaves the rest blank: as the
\* empty string, as white space, as null, or by leaving the keys out; the
\* value `first`, unless it is "", replaces the answer to question 1
ShapedAnswers(n, c, w, blank, first) ==
    [k \in {ToString(i) : i \in 1..(IF blank = "missing" THEN c + w ELSE n)} |->
        LET i == CHOOSE j \in 1..n : ToString(j) = k
        IN  IF i = 1 /\ first # "" THEN first
            ELSE IF i <= c THEN (IF i % 2 = 1 THEN "A" ELSE "a")
            ELSE IF i <= c + w THEN "B"
            ELSE blank]

ScoreDicts(n) ==
    UNION {{ShapedAnswers(n, c, w, blank, first) :
              w \in 0..(n - c),
              blank \in {"", " ", "json:null", "missing"},
              first \in {"", "json:5", "json:0"}} : c \in 0..n}

\* the answers argument: a dict, a string that json.loads turns into a
\* dict, or something else (a string that does not parse, a list, a number)
RawAnswers(n) ==
    {[kind |-> k, dict |-> d] : k \in {"dict", "json dict"}, d \in ScoreDicts(n)}
    \cup {[kind |-> k, dict |-> <<>>] : k \in {"bad json", "json list", "number"}}

\* "parse answers safely"
ParseAnswers(a) == IF a.kind \in {"dict", "json dict"} THEN a.dict ELSE <<>>

\* values of the tazr argument: None, and numbers below, inside and above
\* the scale
TazrArgs == {NoTazr, 0, TazrValue(5000), 2 * TazrValue(10000)}

ScoreInit ==
    /\ exams \in {{}, {1}}
    /\ nextExam = 1
    /\ questions \in {[q \in 1..n |-> [exam_id |-> 1, correct |-> "A"]] :
                        n \in 0..MaxScoreQuestions}
    /\ nextQid = Len(questions)
    /\ results = <<>>
    /\ nextRid = 0
    /\ lock = NoProc
    /\ pc = [p \in Procs |-> "idle"]
    /\ req = [p \in Procs |-> NoReq]
    /\ pending = [p \in Procs |-> <<>>]
    /\ rid = [p \in Procs |-> 0]
    /\ snap = [p \in Procs |-> <<>>]
    /\ out = [p \in Procs |-> NoOut]
    /\ helper = NoCall
    /\ LimiterInit

\* save_result(e, "a", "1", "P1", answers, tazr) is called, the results
\* store being empty
CallSaveResult(p, e, answers, tazr) ==
    /\ pc[p] = "idle"
    /\ DOMAIN results = {}
    /\ req' = [req EXCEPT ![p] =
                 [Normalized(e, <<"a">>, <<"1">>, <<"P1">>, ParseAnswers(answers))
                    EXCEPT !.tazr = tazr]]
    /\ pc' = [pc EXCEPT ![p] = "begin"]
    /\ out' = [out EXCEPT ![p] = NoOut]
    /\ UNCHANGED <<helper, limiter, catalog, results, nextRid, lock, pending, rid, snap>>

\* the calls that can be made in this state
ScoreCalls(p) ==
    /\ pc[p] = "idle"
    /\ DOMAIN results = {}
    /\ \E e \in 1..2, a \in RawAnswers(Len(questions)), t \in TazrArgs :
          CallSaveResult(p, e, a, t)

ScoreNext ==
    \/ ScoreCalls(ScoreCaller)
    \/ BeginImmediate(ScoreCaller)
    \/ CheckAndInsert(ScoreCaller)
    \/ Commit(ScoreCaller)
    \/ RecalcRead(ScoreCaller)
    \/ RecalcBegin(ScoreCaller)
    \/ RecalcCommit(ScoreCaller)

ScoreSpec == ScoreInit /\ [][ScoreNext]_vars

\* ------------------------------------------------ waits for the file lock
\* Calls of save_result, recalc_ranks_for_exam and delete_exam by two
\* threads, each on connections of its own, with the lock states of the
\* database file: a connection whose SELECT is open holds a SHARED lock, the
\* writer holds the RESERVED lock, and at conn.commit() the PENDING lock,
\* which lets no new SHARED lock in, until the SHARED locks of the others
\* are gone.  Every wait is that of sqlite3.connect(..., timeout=30): it
\* ends with the lock or with OperationalError("database is locked").

\* connections between cur.execute(SELECT) and the end of fetchall()
Readers == {p \in Procs : pc[p] = "rc_fetch"}

\* the writer that is at conn.commit()
Committers ==
    {p \in Procs : lock = p /\ pc[p] \in {"commit", "rc_commit", "del_commit"}}

\* a read that is kept out by the RESERVED lock of any connection, the
\* caller's own included
SharedLockNeedsNoWriter(p) == lock = NoProc

\* a SELECT of a connection of p can take its SHARED lock: no other
\* thread's connection holds the PENDING lock (the RESERVED lock of
\* BEGIN IMMEDIATE keeps no reader out)
SharedLockFree(p) == Committers \ {p} = {}

\* conn.commit() of p can take the EXCLUSIVE lock
ExclusiveLockFree(p) == Readers \ {p} = {}

WaitInit ==
    /\ exams = {1}
    /\ nextExam = 1
    /\ questions = (1 :> [exam_id |-> 1, correct |-> "A"])
    /\ nextQid = 1
    /\ results = <<>>
    /\ nextRid = 0
    /\ lock = NoProc
    /\ pc = [p \in Procs |-> "idle"]
    /\ req = [p \in Procs |-> NoReq]
    /\ pending = [p \in Procs |-> <<>>]
    /\ rid = [p \in Procs |-> 0]
    /\ snap = [p \in Procs |-> <<>>]
    /\ out = [p \in Procs |-> NoOut]
    /\ helper = NoCall
    /\ LimiterInit

\* save_result(1, "a", phone, "P1", answers) is called
SaveResultCall(p, phone, answers) ==
    /\ pc[p] = "idle"
    /\ req' = [req EXCEPT ![p] =
                 Normalized(1, <<"a">>, phone, <<"P1">>, answers)]
    /\ pc' = [pc EXCEPT ![p] = "begin"]
    /\ out' = [out EXCEPT ![p] = NoOut]
    /\ UNCHANGED <<helper, limiter, catalog, results, nextRid, lock, pending, rid, snap>>

\* delete_exam(e) is called
DeleteExamCall(p, e) ==
    /\ pc[p] = "idle"
    /\ req' = [req EXCEPT ![p] = [NoReq EXCEPT !.exam_id = e]]
    /\ pc' = [pc EXCEPT ![p] = "del_begin"]
    /\ out' = [out EXCEPT ![p] = NoOut]
    /\ UNCHANGED <<helper, limiter, catalog, results, nextRid, lock, pending, rid, snap>>

\* save_result between BEGIN IMMEDIATE and the INSERT: when the call is no
\* duplicate, get_exam_questions reads on a connection of its own while
\* the caller's first connection holds the RESERVED lock
CheckReadInsert(p) ==
    /\ \/ SaveResultDuplicates(results, req[p].exam_id, req[p].student_name,
                               req[p].phone, req[p].province) # {}
       \/ SharedLockFree(p)
    /\ CheckAndInsert(p)

\* conn.commit() of save_result, once no other connection reads
CommitExclusive(p) ==
    /\ ExclusiveLockFree(p)
    /\ Commit(p)

\* conn.commit() waited 30 s for the readers: OperationalError; the handler
\* rolls the INSERT back (and with it the AUTOINCREMENT counter), closes
\* and re-raises
CommitTimeout(p) ==
    /\ pc[p] = "commit"
    /\ ~ExclusiveLockFree(p)
    /\ pending' = [pending EXCEPT ![p] = <<>>]
    /\ nextRid' = rid[p] - 1
    /\ lock' = NoProc
    /\ Finish(p, "raised", 0)
    /\ UNCHANGED <<helper, limiter, catalog, results, snap>>

\* cur.execute("SELECT id, tazr, province ...") of recalc_ranks_for_exam
\* takes the SHARED lock
RecalcSelect(p) ==
    /\ pc[p] = "rc_read"
    /\ SharedLockFree(p)
    /\ pc' = [pc EXCEPT ![p] = "rc_fetch"]
    /\ UNCHANGED <<helper, limiter, catalog, results, nextRid, lock, req, pending,
                   rid, snap, out>>

\* the SELECT waited 30 s for the SHARED lock: OperationalError
RecalcSelectTimeout(p) ==
    /\ pc[p] = "rc_read"
    /\ ~SharedLockFree(p)
    /\ Finish(p, "raised", 0)
    /\ UNCHANGED <<helper, limiter, catalog, results, nextRid, lock, pending, snap>>

\* rows = cur.fetchall(): the SELECT ends and its SHARED lock is given up
RecalcFetchAll(p) ==
    /\ pc[p] = "rc_fetch"
    /\ \E rows \in SelectRanked(results, req[p].exam_id) :
         IF rows = <<>>
         THEN /\ Finish(p, "returned", rid[p])
              /\ snap' = snap
         ELSE /\ snap' = [snap EXCEPT ![p] = rows]
              /\ pc' = [pc EXCEPT ![p] = "rc_begin"]
              /\ UNCHANGED <<req, rid, out>>
    /\ UNCHANGED <<helper, limiter, catalog, results, nextRid, lock, pending>>

\* conn.commit() of recalc_ranks_for_exam, once no other connection reads
RecalcCommitExclusive(p) ==
    /\ ExclusiveLockFree(p)
    /\ RecalcCommit(p)

\* conn.commit() of recalc_ranks_for_exam waited 30 s for the readers:
\* OperationalError leaves the function, the connection is dropped with the
\* exception and its UPDATEs are rolled back
RecalcCommitTimeout(p) ==
    /\ pc[p] = "rc_commit"
    /\ ~ExclusiveLockFree(p)
    /\ lock' = NoProc
    /\ snap' = [snap EXCEPT ![p] = <<>>]
    /\ Finish(p, "raised", 0)
    /\ UNCHANGED <<helper, limiter, catalog, results, nextRid, pending>>

\* the first DELETE of delete_exam opens the write transaction and takes
\* the RESERVED lock
DeleteBegin(p) ==
    /\ pc[p] = "del_begin"
    /\ lock = NoProc
    /\ lock' = p
    /\ pc' = [pc EXCEPT ![p] = "del_commit"]
    /\ UNCHANGED <<helper, limiter, catalog, results, nextRid, req, pending, rid,
                   snap, out>>

\* the first DELETE waited 30 s for the lock: OperationalError
DeleteTimeout(p) ==
    /\ pc[p] = "del_begin"
    /\ lock \notin {NoProc, p}
    /\ Finish(p, "raised", 0)
    /\ UNCHANGED <<helper, limiter, catalog, results, nextRid, lock, pending, snap>>

\* the three DELETEs and conn.commit() of delete_exam
DeleteCommit(p) ==
    /\ pc[p] = "del_commit"
    /\ ExclusiveLockFree(p)
    /\ results' = Restrict(results,
                     {r \in DOMAIN results :
                        results[r].exam_id # req[p].exam_id})
    /\ questions' = Restrict(questions,
                     {q \in DOMAIN questions :
                        questions[q].exam_id # req[p].exam_id})
    /\ exams' = exams \ {req[p].exam_id}
    /\ lock' = NoProc
    /\ Finish(p, "returned", 0)
    /\ UNCHANGED <<helper, limiter, nextExam, nextQid, nextRid, pending, snap>>

\* conn.commit() of delete_exam waited 30 s for the readers:
\* OperationalError, the connection is dropped and the DELETEs rolled back
DeleteCommitTimeout(p) ==
    /\ pc[p] = "del_commit"
    /\ ~ExclusiveLockFree(p)
    /\ lock' = NoProc
    /\ Finish(p, "raised", 0)
    /\ UNCHANGED <<helper, limiter, catalog, results, nextRid, pending, snap>>

\* the calls a thread makes
WaitCall(p) ==
    \/ \E ph \in {<<>>, <<"1">>}, a \in AnswerMaps : SaveResultCall(p, ph, a)
    \/ CallRecalc(p, 1)
    \/ DeleteExamCall(p, 1)

\* the steps of a call in progress, the ends of its waits included
WaitStep(p) ==
    \/ BeginImmediate(p)
    \/ BeginTimeout(p)
    \/ CheckReadInsert(p)
    \/ CommitExclusive(p)
    \/ CommitTimeout(p)
    \/ RecalcSelect(p)
    \/ RecalcSelectTimeout(p)
    \/ RecalcFetchAll(p)
    \/ RecalcBegin(p)
    \/ RecalcTimeout(p)
    \/ RecalcCommitExclusive(p)
    \/ RecalcCommitTimeout(p)
    \/ DeleteBegin(p)
    \/ DeleteTimeout(p)
    \/ DeleteCommit(p)
    \/ DeleteCommitTimeout(p)

WaitNext ==
    \/ \E p \in Procs : WaitCall(p)
    \/ \E p \in Procs : WaitStep(p)

\* A thread with a call in progress runs: it takes the next step of the
\* call, or its wait for a lock ends.
WaitSpec ==
    /\ WaitInit
    /\ [][WaitNext]_vars
    /\ \A p \in Procs : WF_vars(WaitStep(p))

\* ------------------------------------------- the two duplicate checks
\* One caller, starting from the empty store, asks has_exact_duplicate
\* about raw arguments and calls save_result with the same arguments in
\* the same store state, again and again: the rows the earlier calls
\* stored are the store states of the later ones.
DupCaller == "p1"

\* has_exact_duplicate(e, student_name, phone_raw, province), then
\* save_result(e, student_name, phone_raw, province, answers)
CallBothChecks(p, e, student_name, phone_raw, province, answers) ==
    /\ pc[p] = "idle"
    /\ helper' = [fn |-> "has_exact_duplicate",
                  ret |-> has_exact_duplicate(results, e, student_name,
                                              phone_raw, province)]
    /\ req' = [req EXCEPT ![p] =
                 Normalized(e, student_name, phone_raw, province, answers)]
    /\ pc' = [pc EXCEPT ![p] = "begin"]
    /\ out' = [out EXCEPT ![p] = NoOut]
    /\ UNCHANGED <<limiter, catalog, results, nextRid, lock, pending, rid, snap>>

DupCalls(p) ==
    /\ pc[p] = "idle"
    /\ \E e \in 1..2, n \in RawNames, ph \in RawPhones, pr \in RawProvinces,
          a \in AnswerMaps : CallBothChecks(p, e, n, ph, pr, a)

DupNext ==
    \/ DupCalls(DupCaller)
    \/ BeginImmediate(DupCaller)
    \/ CheckAndInsert(DupCaller)
    \/ Commit(DupCaller)
    \/ RecalcRead(DupCaller)
    \/ RecalcBegin(DupCaller)
    \/ RecalcCommit(DupCaller)

DupSpec == Init /\ [][DupNext]_vars

\* ------------------------------------------ one answer map, many students
\* Exam 1 with one or two questions, which no one edits; every submission
\* carries the same answer map (kept in helper), under any name, phone and
\* province, two at a time.
SameAnswers == [{"1", "2"} -> {"", "A", "B"}]

SameInit ==
    /\ exams = {1}
    /\ nextExam = 1
    /\ questions \in {[q \in 1..n |-> [exam_id |-> 1, correct |-> "A"]] :
                        n \in 1..2}
    /\ nextQid = Len(questions)
    /\ results = <<>>
    /\ nextRid = 0
    /\ lock = NoProc
    /\ pc = [p \in Procs |-> "idle"]
    /\ req = [p \in Procs |-> NoReq]
    /\ pending = [p \in Procs |-> <<>>]
    /\ rid = [p \in Procs |-> 0]
    /\ snap = [p \in Procs |-> <<>>]
    /\ out = [p \in Procs |-> NoOut]
    /\ helper \in {[fn |-> "answers", ret |-> a] : a \in SameAnswers}
    /\ LimiterInit

SameSubmit(p) ==
    /\ pc[p] = "idle"
    /\ \E n \in RawNames, ph \in RawPhones, pr \in PROVINCES :
          SubmitExam(p, 1, n, ph, pr, helper.ret)

SameNext ==
    \/ \E p \in Procs : SameSubmit(p)
    \/ \E p \in Procs : Worker(p)
    \/ \E p \in Procs : BeginTimeout(p)
    \/ \E p \in Procs : RecalcTimeout(p)

SameSpec == SameInit /\ [][SameNext]_vars

\* ------------------------------------------------------- rate limiter
\* Requests to POST /teacher/login from two client addresses, handled by
\* two threads of the server's thread pool; the wall clock moves on in
\* steps of half a window.  Nothing but the interpreter's own locking of
\* a single dict operation keeps the threads apart, so a thread can be
\* suspended between reading the store and writing it.
LOGIN_RATE_LIMIT == [calls |-> 5, per_seconds |-> 60]

MaxRequests == 6
MaxTicks == 2

RateIps == {"ip1", "ip2"}

\* store_key = f"{ip}:{key}"
StoreKey(ip, key) == <<ip, ":", key>>

\* _RATE_LIMIT_STORE.get(store_key, [])
StoreGet(store, store_key) ==
    IF store_key \in DOMAIN store THEN store[store_key] ELSE <<>>

\* _RATE_LIMIT_STORE[store_key] = timestamps
StorePut(store, store_key, timestamps) ==
    [k \in DOMAIN store \cup {store_key} |->
        IF k = store_key THEN timestamps ELSE store[k]]

\* [t for t in timestamps if t > window_start]
InsideWindow(timestamps, window_start) ==
    LET Inside(t) == t > window_start
    IN  SelectSeq(timestamps, Inside)

\* _rate_limited(ip, "teacher_login", 5, 60) up to the filtered list: the
\* clock is read, the list of the store key fetched and filtered into a
\* new list
RateLimitedRead(p, ip) ==
    /\ pc[p] = "idle"
    /\ requests < MaxRequests
    /\ requests' = requests + 1
    /\ frame' = [frame EXCEPT ![p] =
          [store_key |-> StoreKey(ip, "teacher_login"),
           now |-> wall,
           timestamps |->
              InsideWindow(StoreGet(RATE_LIMIT_STORE,
                                    StoreKey(ip, "teacher_login")),
                           wall - LOGIN_RATE_LIMIT.per_seconds)]]
    /\ pc' = [pc EXCEPT ![p] = "rl_check"]
    /\ out' = [out EXCEPT ![p] = NoOut]
    /\ UNCHANGED <<helper, catalog, results, nextRid, lock, req, pending,
                   rid, snap, RATE_LIMIT_STORE, wall, accepted>>

\* the rest of _rate_limited: with `calls` timestamps in the window the
\* filtered list is stored and True returned (the login is redirected with
\* a message); else now is appended, the list stored and False returned
RateLimitedStore(p) ==
    /\ pc[p] = "rl_check"
    /\ IF Len(frame[p].timestamps) >= LOGIN_RATE_LIMIT.calls
       THEN /\ RATE_LIMIT_STORE' = StorePut(RATE_LIMIT_STORE,
                                      frame[p].store_key, frame[p].timestamps)
            /\ out' = [out EXCEPT ![p] = [kind |-> "message", rid |-> 0]]
            /\ accepted' = accepted
       ELSE /\ RATE_LIMIT_STORE' = StorePut(RATE_LIMIT_STORE,
                                      frame[p].store_key,
                                      Append(frame[p].timestamps, frame[p].now))
            /\ out' = [out EXCEPT ![p] = [kind |-> "passed", rid |-> 0]]
            /\ accepted' = Append(accepted, [store_key |-> frame[p].store_key,
                                             t |-> frame[p].now])
    /\ frame' = [frame EXCEPT ![p] = NoFrame]
    /\ pc' = [pc EXCEPT ![p] = "idle"]
    /\ UNCHANGED <<helper, catalog, results, nextRid, lock, req, pending,
                   rid, snap, wall, requests>>

\* half a window of time passes
Tick ==
    /\ wall < MaxTicks * (LOGIN_RATE_LIMIT.per_seconds \div 2)
    /\ wall' = wall + LOGIN_RATE_LIMIT.per_seconds \div 2
    /\ UNCHANGED <<helper, catalog, results, nextRid, lock, pc, req, pending,
                   rid, snap, out, RATE_LIMIT_STORE, frame, accepted, requests>>

RateNext ==
    \/ \E p \in Procs, ip \in RateIps : RateLimitedRead(p, ip)
    \/ \E p \in Procs : RateLimitedStore(p)
    \/ Tick

RateSpec == Init /\ [][RateNext]_vars

\* ---------------------------------------------------------------- claims

\* C1: in every reachable state each exam holds at most one Result per
\* non-empty phone and, among its Results with an empty phone, at most one
\* per (student_name, province) pair.
C1_UniqueResults ==
    \A a, b \in DOMAIN results :
        (a # b /\ results[a].exam_id = results[b].exam_id) =>
            /\ results[a].phone # <<>> => results[a].phone # results[b].phone
            /\ (results[a].phone = <<>> /\ results[b].phone = <<>>) =>
                   <<results[a].student_name, results[a].province>> #
                   <<results[b].student_name, results[b].province>>

\* Two Results with an empty phone are stored for one exam, and a submission
\* has been turned away by save_result's own check.
C1_Witness ==
    /\ \E a, b \in DOMAIN results :
          /\ a # b
          /\ results[a].exam_id = results[b].exam_id
          /\ results[a].phone = <<>> /\ results[b].phone = <<>>
    /\ \E p \in Procs : out[p] = [kind |-> "result", rid |-> 0]

\* The committed rows that carry the key of p's request: the phone when it
\* is not empty, else name and province among the rows with no phone.
SameKeyRows(p) ==
    {r \in ExamRows(results, req[p].exam_id) :
        IF req[p].phone # <<>>
        THEN results[r].phone = req[p].phone
        ELSE /\ results[r].phone = <<>>
             /\ results[r].student_name = req[p].student_name
             /\ results[r].province = req[p].province}

C3_SecondCarriesFirstId ==
    [][\A p \in Procs :
          (/\ pc[p] # "idle" /\ pc'[p] = "idle"
           /\ req[p].phone # <<>>
           /\ out'[p].kind \in {"existing", "result"}) =>
             LET rows == {r \in ExamRows(results', req[p].exam_id) :
                            results'[r].phone = req[p].phone}
             IN  /\ Cardinality(rows) <= 1
                 /\ rows # {} => out'[p].rid \in rows]_vars

\* C4: a submission rejected as a duplicate, by the pre-check or by
\* save_result's check, leaves every row of the results store as it was
\* (no row added, no field of the stored Result changed) and ends the call
\* at once, with no rank recomputation.
C4_DuplicateChangesNothing ==
    [][\A p \in Procs :
          /\ (/\ pc[p] = "precheck" /\ pc'[p] # "precheck"
              /\ has_exact_duplicate(results, req[p].exam_id,
                     req[p].student_name, req[p].phone, req[p].province) # {}) =>
                 /\ results' = results /\ nextRid' = nextRid
                 /\ pc'[p] = "idle" /\ out'[p].kind = "existing"
          /\ (/\ pc[p] = "check" /\ pc'[p] # "check"
              /\ SaveResultDuplicates(results, req[p].exam_id,
                     req[p].student_name, req[p].phone, req[p].province) # {}) =>
                 /\ results' = results /\ nextRid' = nextRid
                 /\ pc'[p] = "idle" /\ out'[p] = [kind |-> "result", rid |-> 0]
                 /\ snap'[p] = <<>> /\ pending'[p] = <<>>]_vars

\* Both rejections happened: one submission was redirected to an existing
\* Result that has its ranks and a full score, another was turned away by
\* save_result.
C4_Witness ==
    \E p, q \in Procs :
        /\ out[p].kind = "existing"
        /\ out[p].rid \in DOMAIN results
        /\ results[out[p].rid].rank_national > 0
        /\ results[out[p].rid].score > 0
        /\ out[q] = [kind |-> "result", rid |-> 0]

\* C5: when recalc_ranks_for_exam(e) completes and no writer changed the
\* exam's rows since it read them, every Result of e has rank_national equal
\* to 1 plus the number of Results of e with a strictly greater tazr.
C5_NationalRank ==
    [][\A p \in Procs :
          (pc[p] = "rc_commit" /\ pc'[p] = "idle" /\ SnapCurrent(p)) =>
             NationalFresh(results', req[p].exam_id)]_vars

\* Three Results of exam 1 with tazr values t, t and a smaller one carry the
\* national ranks 1, 1 and 3.
C5_Witness ==
    \E a, b, c \in ExamRows(results, 1) :
        /\ a # b
        /\ results[a].tazr = results[b].tazr
        /\ results[a].tazr > results[c].tazr
        /\ results[a].rank_national = 1
        /\ results[b].rank_national = 1
        /\ results[c].rank_national = 3

\* C6: when recalc_ranks_for_exam(e) completes and no writer changed the
\* exam's rows since it read them, every Result of e has rank_provincial
\* equal to 1 plus the number of Results of e in its province with a
\* strictly greater tazr; and the rank written is the one the province's
\* rows give when their ties are left in created_at order, not sorted by id.
C6_ProvincialRank ==
    [][\A p \in Procs :
          (pc[p] = "rc_commit" /\ pc'[p] = "idle" /\ SnapCurrent(p)) =>
             /\ ProvincialFresh(results', req[p].exam_id)
             /\ \A i \in 1..Len(snap[p]) :
                   LET byCreated == ProvRows(snap[p], snap[p][i].province)
                   IN  results'[snap[p][i].id].rank_provincial =
                         RankAt(byCreated, Position(byCreated, snap[p][i].id))]_vars

\* Two Results of one province tie, the one with the smaller id created
\* later; both are first in their province and second in the exam.
C6_Witness ==
    \E a, b \in ExamRows(results, 1) :
        /\ a < b
        /\ results[a].province = results[b].province
        /\ results[a].tazr = results[b].tazr
        /\ results[a].created_at > results[b].created_at
        /\ results[a].rank_provincial = 1 /\ results[b].rank_provincial = 1
        /\ results[a].rank_national = 2 /\ results[b].rank_national = 2

\* C7: recalc_ranks_for_exam is idempotent: for every store and exam, a
\* second run on what a first run left (whatever order each SELECT returns
\* tied rows in) leaves every row as the first run left it.
C7_RecalcIdempotent ==
    \A e \in 1..2 :
        \A rows1 \in SelectRanked(results, e) :
            LET once == WriteRanks(results, rows1)
            IN  \A rows2 \in SelectRanked(once, e) :
                    WriteRanks(once, rows2) = once

\* A second run is about to write: the exam's three Results carry the ranks
\* of a first run, and the rows fetched again are the rows as they are.
C7_Witness ==
    /\ pc[RankCaller] = "rc_commit"
    /\ req[RankCaller].exam_id = 1
    /\ SnapCurrent(RankCaller)
    /\ Cardinality(ExamRows(results, 1)) = 3
    /\ \A r \in ExamRows(results, 1) : results[r].rank_national > 0
    /\ \E r \in ExamRows(results, 1) : results[r].rank_national = 2

\* C8: once the submissions to an exam have all returned a Result id and
\* nothing is in flight, every Result of the exam carries the competition
\* rank over all the committed Results of the exam (the recalc runs of
\* near-simultaneous submissions did not interleave their reads and writes).
C8_RanksFreshOnceReturned ==
    (\A p \in Procs :
        /\ pc[p] = "idle"
        /\ out[p].kind = "result"
        /\ out[p].rid \in DOMAIN results) =>
       \A e \in ExamIds : RanksFresh(results, e)

\* C9: a save_result call that ends with an error raised to the caller has
\* left no row for its submission in the results store.
C9_ErrorMeansRolledBack ==
    [][\A p \in Procs :
          (pc[p] # "idle" /\ pc'[p] = "idle" /\ out'[p].kind = "message") =>
             (rid[p] = 0 \/ rid[p] \notin DOMAIN results')]_vars

\* a Result is stored unranked and no call is on its way to rank it: the
\* recomputation that followed its insert has failed
RecalcFailed(e) ==
    \E r \in ExamRows(results, e) :
        /\ results[r].rank_national = 0
        /\ \A p \in Procs : rid[p] # r

\* C10: if the recomputation after a committed insert has failed, then,
\* with the caller retrying the failed submission, the exam eventually has
\* fresh ranks on all its Results.
C10_StaleLeadsToFresh ==
    \A e \in ExamIds : RecalcFailed(e) ~> RanksFresh(results, e)

\* the call of p is at the duplicate check, is not a duplicate, and the
\* storage has room for its row
InsertDue(p) ==
    /\ pc[p] = "check"
    /\ SaveResultDuplicates(results, req[p].exam_id, req[p].student_name,
                            req[p].phone, req[p].province) = {}
    /\ nextRid < MaxResults

\* C11: for an exam with at least one question and any answer map, the row
\* save_result inserts (no tazr override given) has score equal to
\* 100 * max(correctCount - wrongCount // 3, 0) / totalQuestions rounded to
\* 2 decimals, an answer that is missing, empty, white space or null being
\* neither correct nor wrong, and tazr equal to 1000 + score/100 * 12500.
C11_ScoreFormula ==
    [][\A p \in Procs :
          (/\ pc[p] = "check" /\ pc'[p] = "commit"
           /\ req[p].tazr = NoTazr
           /\ get_exam_questions(req[p].exam_id) # {}) =>
             LET qs == get_exam_questions(req[p].exam_id)
                 a == req[p].answers
                 keys == {q \in qs : ToString(q) \in DOMAIN a}
                 blank == {q \in qs : q \in keys =>
                             a[ToString(q)] \in {"", " ", "json:null", "json:0"}}
                 right == {q \in keys \ blank :
                             a[ToString(q)] \in {questions[q].correct, "a"}}
                 wrong == qs \ (blank \cup right)
                 adjusted == Max(Cardinality(right) - (Cardinality(wrong) \div 3), 0)
                 total == Cardinality(qs)
                 row == pending'[p][1]
                 err == row.score * total - 10000 * adjusted
             IN  /\ 2 * err <= total /\ -2 * err <= total
                 /\ 100 * row.tazr = 1000 * 10000 + row.score * 12500]_vars

\* A Result of an exam with 10 questions, 6 answered right, 3 wrong and 1
\* left blank, is stored with score 50.00 and tazr 7250.00.
C11_Witness ==
    \E r \in DOMAIN results :
        LET pq == results[r].details.per_question
        IN  /\ Cardinality(DOMAIN pq) = 10
            /\ Cardinality({q \in DOMAIN pq : pq[q].is_correct}) = 6
            /\ Cardinality({q \in DOMAIN pq : pq[q].your_answer = ""}) = 1
            /\ results[r].score = 5000
            /\ results[r].tazr = 725000

\* C12: every stored Result, whatever the questions, the answers and the
\* tazr override passed to save_result, has score in 0..100 and tazr in
\* 1000..13500.
C12_ScoreAndTazrInRange ==
    \A r \in DOMAIN results :
        /\ results[r].score >= 0 /\ results[r].score <= 100 * 100
        /\ results[r].tazr >= TazrMin * 100
        /\ results[r].tazr <= TazrMax * 100

\* C13: a submission that is not a duplicate, to an exam id with no
\* questions (with or without a row in exams), raises nothing and inserts
\* a row with score 0.0, tazr 1000.0 and empty per_topic and per_question
\* maps, whatever its answers hold.
C13_NoQuestionsScoresZero ==
    [][\A p \in Procs :
          (/\ InsertDue(p) /\ pc'[p] # "check"
           /\ req[p].tazr = NoTazr
           /\ \A q \in DOMAIN questions :
                 questions[q].exam_id # req[p].exam_id) =>
             /\ pc'[p] = "commit"
             /\ pending'[p][1].score = 0
             /\ pending'[p][1].tazr = TazrMin * 100
             /\ DOMAIN pending'[p][1].details.per_topic = {}
             /\ DOMAIN pending'[p][1].details.per_question = {}]_vars

\* A row with score 0 was inserted for exam 2, which has no row in exams
\* and no questions, from answers that answer questions of exam 1.
C13_Witness ==
    \E p \in Procs :
        /\ pc[p] = "commit"
        /\ req[p].exam_id = 2 /\ 2 \notin exams
        /\ \E k \in DOMAIN req[p].answers : req[p].answers[k] = "A"
        /\ questions # <<>>
        /\ pending[p][1].score = 0
        /\ pending[p][1].tazr = TazrMin * 100

\* C14: for any answers argument, a save_result call that is not a
\* duplicate and meets no storage contention raises nothing and inserts
\* its row.
C14_ScoringNeverFails ==
    [][\A p \in Procs :
          (InsertDue(p) /\ pc'[p] # "check") => pc'[p] = "commit"]_vars

\* C15: for every input, None and the empty string included, whatever
\* digit glyphs it holds, normalize_phone returns a string of ASCII digits
\* 0-9 only.
C15_PhoneAsciiDigitsOnly ==
    helper.fn = "normalize_phone" =>
        \A i \in 1..Len(helper.ret) : helper.ret[i] \in AsciiDigits

\* C16: for a digit-free name N, a separator that is any run of
\* punctuation or underscores, and a digit string D in ASCII, Persian or
\* Arabic-Indic digits, normalize_combined_input(N + sep + D) returns the
\* phone D in ASCII digits and the combined token N_D.
C16_CombinedIgnoresSeparator ==
    (helper.fn = "normalize_combined_input" /\ helper.parts # <<>>) =>
        helper.ret = <<helper.parts[1] \o <<"_">> \o helper.parts[3],
                       helper.parts[3]>>

\* C17: is_persian_name_strict(s) is true exactly when s is not empty and
\* each of its characters is a Persian letter, a plain space or a
\* zero-width non-joiner.
C17_StrictPersianName ==
    helper.fn = "is_persian_name_strict" =>
        (helper.ret <=>
            /\ helper.arg # <<>>
            /\ \A i \in 1..Len(helper.arg) :
                  helper.arg[i] \in {"alef", " ", "zwnj"})

\* C18: a stored Result keeps its exam_id, student_name, phone, province,
\* score, tazr, details and created_at through every step (only its two
\* ranks may change), and the only step that removes it is a delete_exam
\* of its exam.
C18_ResultImmutable ==
    [][\A r \in DOMAIN results :
          IF r \in DOMAIN results'
          THEN [results'[r] EXCEPT !.rank_national = 0, !.rank_provincial = 0]
               = [results[r] EXCEPT !.rank_national = 0, !.rank_provincial = 0]
          ELSE delete_exam(results[r].exam_id)]_vars

\* A ranked Result with a score above 0 is stored for an exam whose only
\* question has since been deleted.
C18_Witness ==
    \E r \in DOMAIN results :
        /\ results[r].score > 0
        /\ results[r].rank_national = 1
        /\ nextQid > 0
        /\ questions = <<>>
        /\ results[r].exam_id \in exams

\* C19: a delete_exam(e) step, and any step after which exam e is no
\* longer in table exams, leaves in one step no exam e, no Question of e
\* and no Result of e in the committed store.
C19_DeleteCascades ==
    [][\A e \in ExamIds :
          (delete_exam(e) \/ (e \in exams /\ e \notin exams')) =>
             /\ e \notin exams'
             /\ \A q \in DOMAIN questions' : questions'[q].exam_id # e
             /\ \A r \in DOMAIN results' : results'[r].exam_id # e]_vars

\* An exam that had a question and a committed Result has been deleted:
\* the three tables are empty.
C19_Witness ==
    /\ nextExam > 0 /\ exams = {}
    /\ nextQid > 0 /\ questions = <<>>
    /\ nextRid > 0 /\ results = <<>>
    /\ \A p \in Procs : pending[p] = <<>> /\ pc[p] = "idle"

\* the Questions and the Results, ranks included, of exam e
ExamData(qs, res, e) ==
    <<Restrict(qs, {q \in DOMAIN qs : qs[q].exam_id = e}),
      Restrict(res, ExamRows(res, e))>>

\* a step of an operation on exam e: delete_exam(e), or a step of a call in
\* progress for e
StepFor(e) ==
    \/ delete_exam(e)
    \/ \E p \in Procs :
          pc[p] # "idle" /\ pc'[p] # pc[p] /\ req[p].exam_id = e

\* every step of an operation on an exam leaves the Questions, the Results
\* and the ranks of every other exam as they were
CrossFrame ==
    \A a \in CrossExams : \A b \in CrossExams \ {a} :
        (StepFor(a) /\ ~StepFor(b)) =>
            ExamData(questions', results', b) = ExamData(questions, results, b)

\* a submission to an exam, while every other call in progress is for
\* another exam and the storage has room, ends as it does with nothing
\* else running: in no error, and, if it stored a row, with the ranks of
\* its exam fresh
CrossOutcome ==
    \A p \in Procs :
        (/\ pc[p] # "idle" /\ pc'[p] = "idle"
         /\ nextRid < MaxResults \/ rid[p] # 0
         /\ \A q \in Procs \ {p} : req[q].exam_id # req[p].exam_id) =>
            /\ out'[p].kind # "message"
            /\ (out'[p].kind = "result" /\ out'[p].rid \in DOMAIN results') =>
                  RanksFresh(results', req[p].exam_id)

\* C20: operations on one exam leave the Questions, Results and ranks of
\* every other exam unchanged, and a submission to an exam has the same
\* outcome (new row, duplicate, score and ranks) whatever operations on
\* other exams run concurrently.
C20_CrossExamIndependent == [][CrossFrame /\ CrossOutcome]_vars

\* C21: no store operation blocks forever: with save_result,
\* recalc_ranks_for_exam and delete_exam called concurrently, every call in
\* progress eventually returns (normally, or raising after its wait for a
\* lock), the question read of save_result under its own write lock
\* included.
C21_EveryCallReturns ==
    \A p \in Procs : (pc[p] # "idle") ~> (pc[p] = "idle")

\* one call waits for the write lock while the other, holding it, has read
\* the questions on its second connection and inserted its row
C21_Witness ==
    \E p \in Procs, q \in Procs :
        /\ pc[p] \in {"begin", "rc_begin", "del_begin"}
        /\ lock = q
        /\ pc[q] = "commit"
        /\ pending[q] # <<>>

\* the ids of the rows a recalc_ranks_for_exam of p fetched in this step
FetchedIds(p) ==
    IF pc'[p] = "rc_begin"
    THEN {snap'[p][i].id : i \in 1..Len(snap'[p])}
    ELSE {}

\* the phases of the save_result call of p up to the start of the rank
\* recomputation: the duplicate check, the scoring and the INSERT (with
\* ranks 0) run under the write lock; the commit makes the row visible
\* with ranks 0 and releases the lock; the SELECT of the recomputation runs
\* after it, outside the write transaction
PhasesInOrder(p) ==
    /\ pc[p] = "check" => lock = p
    /\ pending'[p] # pending[p] /\ pending'[p] # <<>> =>
          /\ pc[p] = "check" /\ pc'[p] = "commit"
          /\ lock = p /\ lock' = p
          /\ SaveResultDuplicates(results, req[p].exam_id, req[p].student_name,
                                  req[p].phone, req[p].province) = {}
          /\ pending'[p][1].rank_national = 0
          /\ pending'[p][1].rank_provincial = 0
          /\ results' = results
    /\ rid[p] \in DOMAIN results' \ DOMAIN results =>
          /\ pc[p] = "commit" /\ pc'[p] = "rc_read"
          /\ lock = p /\ lock' = NoProc
          /\ results'[rid[p]] = pending[p][1]
    /\ pc[p] = "rc_read" /\ pc'[p] # "rc_read" /\ rid[p] # 0 =>
          /\ lock # p
          /\ pending[p] = <<>>

\* C22 as stated: each non-duplicate save_result call takes the write lock,
\* checks for a duplicate, scores, inserts its row with both ranks 0,
\* commits and releases the lock, and only then starts the rank
\* recomputation, which therefore always includes the new row.
C22_RecalcAlwaysIncludesRow ==
    [][\A p \in Procs :
         /\ PhasesInOrder(p)
         /\ pc[p] = "rc_read" /\ pc'[p] # "rc_read" /\ rid[p] # 0 =>
               rid[p] \in FetchedIds(p)]_vars

\* C22, amended: the phases of a non-duplicate save_result call come in
\* that order, and the rank recomputation, started after the commit and
\* outside the write transaction, includes the new row whenever that row
\* has not been deleted since the commit.
C22_PhasesThenRecalc ==
    [][\A p \in Procs :
         /\ PhasesInOrder(p)
         /\ pc[p] = "rc_read" /\ pc'[p] # "rc_read" /\ rid[p] \in DOMAIN results =>
               rid[p] \in FetchedIds(p)]_vars

\* a recomputation started by save_result has fetched the exam's rows, the
\* row just committed (still unranked) among them, while the other call
\* holds the write lock
C22_Witness ==
    \E p \in Procs :
        /\ pc[p] = "rc_begin"
        /\ rid[p] \in {snap[p][i].id : i \in 1..Len(snap[p])}
        /\ rid[p] \in DOMAIN results
        /\ results[rid[p]].rank_national = 0
        /\ lock \notin {NoProc, p}

\* C23: the pre-check and the check inside the transaction decide alike:
\* in every store state and for every (exam_id, student_name, phone,
\* province), has_exact_duplicate returns a row if and only if save_result,
\* called in that state with the same arguments, returns None and inserts
\* nothing.
C23_ChecksAgree ==
    [][\A p \in Procs :
         pc[p] = "check" /\ pc'[p] # "check" =>
            ((helper.ret # {}) <=>
                /\ out'[p] = [kind |-> "result", rid |-> 0]
                /\ pc'[p] = "idle"
                /\ pending'[p] = <<>>
                /\ results' = results
                /\ nextRid' = nextRid)]_vars

\* in a store of two rows has_exact_duplicate found a row for the
\* arguments, and save_result has returned None for them
C23_Witness ==
    /\ helper.fn = "has_exact_duplicate"
    /\ helper.ret # {}
    /\ pc[DupCaller] = "idle"
    /\ out[DupCaller] = [kind |-> "result", rid |-> 0]
    /\ Cardinality(DOMAIN results) = 2

\* C24: in every reachable state, with add_exam, add_question, delete_exam
\* and save_result interleaved in any way, every stored Result and every
\* stored Question has an exam_id of an Exam that is in the store.
C24_NoOrphanRows ==
    /\ \A r \in DOMAIN results : results[r].exam_id \in exams
    /\ \A q \in DOMAIN questions : questions[q].exam_id \in exams

\* no call is in flight, every Result ever inserted is stored, and each was
\* stored by the last call of a worker, which returned its id: the rank
\* recomputation of every insert has completed and none has failed
AllRecalcsCompleted ==
    /\ \A p \in Procs : pc[p] = "idle" /\ out[p].kind = "result"
    /\ DOMAIN results = {out[p].rid : p \in Procs}
    /\ nextRid = Cardinality(DOMAIN results)

\* C25: in every quiescent state (no submission in flight, the last rank
\* recomputation of each exam completed) every Result r of an exam with n
\* Results has 1 <= rank_provincial(r) <= rank_national(r) <= n, a Result
\* with the exam's highest tazr has rank_national 1, and of two Results of
\* the exam the one with the greater tazr has the strictly smaller
\* rank_national.
C25_QuiescentRanksOrdered ==
    AllRecalcsCompleted =>
        \A e \in ExamIds :
            LET rows == ExamRows(results, e)
            IN  \A r \in rows :
                  /\ 1 <= results[r].rank_provincial
                  /\ results[r].rank_provincial <= results[r].rank_national
                  /\ results[r].rank_national <= Cardinality(rows)
                  /\ (\A s \in rows : results[s].tazr <= results[r].tazr) =>
                        results[r].rank_national = 1
                  /\ \A s \in rows :
                        results[r].tazr > results[s].tazr =>
                           results[r].rank_national < results[s].rank_national

\* C26: scoring depends only on the exam's questions and the answer map:
\* two non-duplicate submissions to the same exam, with the same question
\* set and equal answer maps, are stored with the same score, tazr and
\* details, whatever their student name, phone, province and order, and
\* whatever Results are already stored.
C26_ScoringDeterministic ==
    \A r \in DOMAIN results : \A s \in DOMAIN results :
        results[r].exam_id = results[s].exam_id =>
            /\ results[r].score = results[s].score
            /\ results[r].tazr = results[s].tazr
            /\ results[r].details = results[s].details

\* two Results with a score above 0 are stored for the exam, the second
\* submitted while the first was there, with another phone and province
C26_Witness ==
    \E r \in DOMAIN results : \E s \in DOMAIN results :
        /\ r < s
        /\ results[r].exam_id = results[s].exam_id
        /\ results[r].phone # results[s].phone
        /\ results[r].province # results[s].province
        /\ results[r].score > 0
        /\ results[r].rank_national > 0
        /\ results[s].rank_national > 0

\* the requests of store key k let through with a timestamp in the window
\* of per_seconds seconds that ends at time e
AcceptedIn(acc, k, e) ==
    {i \in 1..Len(acc) :
        /\ acc[i].store_key = k
        /\ acc[i].t > e - LOGIN_RATE_LIMIT.per_seconds
        /\ acc[i].t <= e}

\* C27: for every ip and endpoint key and every window of per_seconds
\* seconds, _rate_limited returns False for at most `calls` requests with a
\* timestamp in that window, also when requests of the same ip and key are
\* handled concurrently, and a request it rejects is not recorded as a new
\* timestamp.
C27_RateLimitBounds ==
    [][/\ \A i \in 1..Len(accepted') :
             Cardinality(AcceptedIn(accepted', accepted'[i].store_key,
                                    accepted'[i].t))
                <= LOGIN_RATE_LIMIT.calls
       /\ \A p \in Procs :
             pc[p] = "rl_check" /\ pc'[p] = "idle" /\ accepted' = accepted =>
                /\ out'[p].kind = "message"
                /\ StoreGet(RATE_LIMIT_STORE', frame[p].store_key)
                      = frame[p].timestamps]_vars

====
